---- MODULE Spec2Model ----
(***************************************************************************)
(* Model of the asynchronous job execution engine of image-sync:           *)
(*   models.SyncTask (log buffer + listener channels),                     *)
(*   repository.InMemoryTaskRepository,                                    *)
(*   service.syncService.ExecuteSync / readOutput / handleTaskError,       *)
(*   handler.SyncHandler.SyncImage / StreamLogs.                           *)
(* One task is followed from submission to the end of its job, together    *)
(* with the two output readers of the job, the external process and a      *)
(* fixed set of StreamLogs clients.                                        *)
(***************************************************************************)
EXTENDS Integers, Sequences, FiniteSets, TLC

\* ------------------------------------------------------------------ bounds
\* capacity of a listener channel; make(chan string, 100) in the source,
\* scaled down so that a full queue is reached
ChanCap == 2
\* number of lines the external process writes to its two pipes
MaxLines == 1
\* number of AddLog calls made on the task in TaskSpec
MaxLog == 4
\* number of tasks in the list handed to ListTasks and sortTasks
MaxTasks == 3
\* width of an int in bits; 64 in the build, scaled down so that the products
\* of the page arithmetic can be computed
IntBits == 16

\* --------------------------------------------------------------- constants
TaskID == "t1"
Handlers == {"h1"}
Readers == {"stdout", "stderr"}
\* the callers of TaskSpec, each of which makes at most one channel
Callers == {"c1", "c2"}

StatusPending == "pending"
StatusRunning == "running"
StatusCompleted == "completed"
StatusFailed == "failed"
Terminal == {StatusCompleted, StatusFailed}

Nil == "nil"

\* the requests a submission can carry, by what buildSkopeoArgs looks at:
\* whether both parts of a credential pair are given, and the architecture
\* selector split on "/"
Requests ==
  { [srcCreds |-> FALSE, destCreds |-> FALSE, arch |-> <<>>],
    [srcCreds |-> FALSE, destCreds |-> FALSE, arch |-> <<"linux", "amd64">>],
    [srcCreds |-> TRUE, destCreds |-> FALSE, arch |-> <<"amd64">>],
    [srcCreds |-> FALSE, destCreds |-> TRUE, arch |-> <<"amd64">>] }

\* no request at hand (before the submission, after buildSkopeoArgs)
NoReq == [srcCreds |-> FALSE, destCreds |-> FALSE, arch |-> <<>>, taskArch |-> <<>>]

\* the string that is one word
Str(word) == <<word>>

\* CreateSyncTask: the architecture of the new task
Architecture(requested) == IF requested = <<>> THEN Str("all") ELSE requested

VARIABLES
  tasks,         \* InMemoryTaskRepository.tasks: id -> task reference
  Status, Message, Output, ErrorOutput, EndTime,   \* SyncTask scalar fields
  LogLines,      \* SyncTask.LogLines
  LogListeners,  \* SyncTask.LogListeners: sequence of channel ids
  chans,         \* the channels made by AddLogListener: buffer and closed flag
  panicked,      \* a send on / close of a closed channel happened
  ex,            \* the ExecuteSync goroutine: pc, err, message, request
  rd,            \* the two readOutput goroutines
  proc,          \* the external process
  ctx,           \* the context of the job: none, active, expired, cancelled
  hs,            \* the StreamLogs calls: pc, existingLogs
  sent,          \* the lines each StreamLogs call has written to its client
  closeAllCalls, \* history: number of CloseAllLogListeners calls
  lenAtClose,    \* history: length of the log at the CloseAllLogListeners call
  regAt,         \* history (TaskSpec): length of the log when a channel was registered
  dropped,       \* history: channels for which AddLog dropped a line
  call,          \* the last call made on the repository, with what it returned
  stored,        \* history: what the successful repository calls stored, by id
  lq             \* a ListTasks / sortTasks call: its input and what it returned

taskVars == <<Status, Message, Output, ErrorOutput, EndTime>>
hubVars == <<LogLines, LogListeners, chans, panicked, dropped>>
histVars == <<closeAllCalls, lenAtClose, regAt>>
apiVars == <<call, stored, lq>>
vars == <<tasks, Status, Message, Output, ErrorOutput, EndTime, LogLines,
          LogListeners, chans, panicked, ex, rd, proc, ctx, hs, sent,
          closeAllCalls, lenAtClose, regAt, dropped, call, stored, lq>>

\* ----------------------------------------------------------------- helpers
Range(s) == { s[i] : i \in 1..Len(s) }

IsPrefix(s, t) == Len(s) <= Len(t) /\ \A i \in 1..Len(s) : s[i] = t[i]

RECURSIVE IsSubseq(_, _)
\* s is an order-preserving subsequence of t
IsSubseq(s, t) ==
  IF s = <<>> THEN TRUE
  ELSE IF t = <<>> THEN FALSE
  ELSE IF Head(s) = Head(t) THEN IsSubseq(Tail(s), Tail(t))
  ELSE IsSubseq(s, Tail(t))

RECURSIVE RemoveFirst(_, _)
\* append(l[:i], l[i+1:]...) for the first i with l[i] = c
RemoveFirst(l, c) ==
  IF l = <<>> THEN <<>>
  ELSE IF Head(l) = c THEN Tail(l)
  ELSE <<Head(l)>> \o RemoveFirst(Tail(l), c)

\* the line an AddLog call of the job writes: every call writes a line of its
\* own, told from the others by the number of the call
NewLine == Len(LogLines) + 1

\* ------------------------------------------------------- models.SyncTask
\* mutant of TrySend: the line is put in front of the pending lines
TrySend_Front(c, line) ==
  IF Len(c.buf) < ChanCap THEN [c EXCEPT !.buf = <<line>> \o @] ELSE c

\* ch <- line inside select/default: enqueue when there is room
TrySend(c, line) ==
  IF Len(c.buf) < ChanCap THEN [c EXCEPT !.buf = Append(@, line)] ELSE c

\* mutant of AddLog: a plain send, which waits for room in every queue
AddLog_Blocking(line) ==
  /\ \A h \in Range(LogListeners) : Len(chans[h].buf) < ChanCap
  /\ LogLines' = Append(LogLines, line)
  /\ chans' = [h \in DOMAIN chans |->
                 IF h \in Range(LogListeners) THEN TrySend(chans[h], line) ELSE chans[h]]
  /\ UNCHANGED <<LogListeners, panicked, dropped>>

\* mutant of AddLog: the line is put in front of the log
AddLog_Prepend(line) ==
  /\ LogLines' = <<line>> \o LogLines
  /\ chans' = [h \in DOMAIN chans |->
                 IF h \in Range(LogListeners) THEN TrySend(chans[h], line) ELSE chans[h]]
  /\ UNCHANGED <<LogListeners, panicked, dropped>>

AddLog(line) ==
  /\ LogLines' = Append(LogLines, line)
  /\ chans' = [h \in DOMAIN chans |->
                 IF h \in Range(LogListeners) /\ ~chans[h].closed
                   THEN TrySend(chans[h], line) ELSE chans[h]]
  /\ panicked' = (panicked \/ \E h \in Range(LogListeners) : chans[h].closed)
  /\ dropped' = dropped \cup
        { h \in Range(LogListeners) : Len(chans[h].buf) >= ChanCap }
  /\ UNCHANGED LogListeners

AddLogListener(ch) ==
  /\ chans' = [chans EXCEPT ![ch] = [made |-> TRUE, buf |-> <<>>, closed |-> FALSE]]
  /\ LogListeners' = Append(LogListeners, ch)
  /\ UNCHANGED <<LogLines, panicked, dropped>>

\* mutant of RemoveLogListener: the channel is closed and stays in the list
RemoveLogListener_KeepInSet(ch) ==
  /\ IF ch \in Range(LogListeners)
       THEN /\ chans' = [chans EXCEPT ![ch].closed = TRUE]
            /\ panicked' = (panicked \/ chans[ch].closed)
       ELSE UNCHANGED <<chans, panicked>>
  /\ UNCHANGED <<LogLines, LogListeners, dropped>>

\* mutant of RemoveLogListener: the channel is closed whether or not it is
\* still in the list
RemoveLogListener_CloseAlways(ch) ==
  /\ LogListeners' = SelectSeq(LogListeners, LAMBDA x : x # ch)
  /\ chans' = [chans EXCEPT ![ch].closed = TRUE]
  /\ panicked' = (panicked \/ chans[ch].closed)
  /\ UNCHANGED <<LogLines, dropped>>

RemoveLogListener(ch) ==
  /\ IF ch \in Range(LogListeners)
       THEN /\ LogListeners' = RemoveFirst(LogListeners, ch)
            /\ chans' = [chans EXCEPT ![ch].closed = TRUE]
            /\ panicked' = (panicked \/ chans[ch].closed)
       ELSE UNCHANGED <<LogListeners, chans, panicked>>
  /\ UNCHANGED <<LogLines, dropped>>

\* mutant of CloseAllLogListeners: the channels are closed and stay in the list
CloseAllLogListeners_KeepSet ==
  /\ chans' = [h \in DOMAIN chans |->
                 IF h \in Range(LogListeners)
                   THEN [chans[h] EXCEPT !.closed = TRUE] ELSE chans[h]]
  /\ panicked' = (panicked \/ \E h \in Range(LogListeners) : chans[h].closed)
  /\ UNCHANGED <<LogLines, LogListeners, dropped>>

CloseAllLogListeners ==
  /\ chans' = [h \in DOMAIN chans |->
                 IF h \in Range(LogListeners)
                   THEN [chans[h] EXCEPT !.closed = TRUE] ELSE chans[h]]
  /\ panicked' = (panicked \/ \E h \in Range(LogListeners) : chans[h].closed)
  /\ LogListeners' = <<>>
  /\ UNCHANGED <<LogLines, dropped>>

\* mutant of GetLogLines: the newest line is left out of the copy
GetLogLines_Stale == SubSeq(LogLines, 1, Len(LogLines) - 1)

GetLogLines == LogLines

\* ------------------------------------- repository.InMemoryTaskRepository
RepoHas(id) == id \in DOMAIN tasks
RepoCreate(id) == tasks' = [i \in (DOMAIN tasks) \cup {id} |-> IF i = id THEN id ELSE tasks[i]]
RepoUpdate(id) == IF RepoHas(id) THEN tasks' = [tasks EXCEPT ![id] = id] ELSE UNCHANGED tasks

\* ------------------------------------------------------------------ Init
\* models.NewSyncTask, before anything is submitted; ids are the clients
InitOver(ids) ==
  /\ tasks = <<>>
  /\ Status = StatusPending
  /\ Message = "Task created"
  /\ Output = <<>>
  /\ ErrorOutput = ""
  /\ EndTime = Nil
  /\ LogLines = <<>>
  /\ LogListeners = <<>>
  /\ chans = [h \in ids |-> [made |-> FALSE, buf |-> <<>>, closed |-> FALSE]]
  /\ panicked = FALSE
  /\ ex = [pc |-> "idle", err |-> Nil, msg |-> "", req |-> NoReq]
  /\ rd = [r \in Readers |-> [pc |-> "off", n |-> 0]]
  /\ proc = "none"
  /\ ctx = "none"
  /\ hs = [h \in ids |-> [pc |-> "idle", existingLogs |-> <<>>]]
  /\ sent = [h \in ids |-> <<>>]
  /\ closeAllCalls = 0
  /\ lenAtClose = 0
  /\ regAt = [h \in ids |-> 0]
  /\ dropped = {}

\* no repository call made from outside the job, no task list asked for
NoCall == [op |-> "none", id |-> "", arg |-> Nil, ret |-> Nil, err |-> Nil, list |-> <<>>]
NoResp == [kind |-> "none"]
NoQuery == [kind |-> "none"]
ApiIdle == call = NoCall /\ stored = <<>> /\ lq = NoQuery

Init == InitOver(Handlers) /\ ApiIdle

\* the executor moves to pc p
Goto(p) == ex' = [ex EXCEPT !.pc = p]
\* the executor returns: its locals are gone
Return == ex' = [pc |-> "done", err |-> Nil, msg |-> "", req |-> NoReq]
\* return s.handleTaskError(task, message, err)
Fail(message, err) == ex' = [ex EXCEPT !.pc = "heLog", !.msg = message, !.err = err]

othersOfExec == <<rd, proc, ctx, hs, sent>>

\* ------------------------------------------- handler.SyncHandler.SyncImage
\* mutant of SyncImage: the executor is launched for a task that was not
\* put into the repository
SyncImage_NoCreate ==
  /\ ex.pc = "idle"
  /\ \E r \in Requests :
       ex' = [ex EXCEPT !.pc = "get",
                        !.req = [srcCreds |-> r.srcCreds, destCreds |-> r.destCreds,
                                 arch |-> r.arch, taskArch |-> Architecture(r.arch)]]
  /\ UNCHANGED <<apiVars, tasks, taskVars, hubVars, histVars, othersOfExec>>

\* CreateSyncTask puts a new task into the repository, with the architecture
\* of the request or "all"; the executor is launched with the request; the
\* response is written without waiting for it
SyncImage ==
  /\ ex.pc = "idle"
  /\ \E r \in Requests :
       ex' = [ex EXCEPT !.pc = "get",
                        !.req = [srcCreds |-> r.srcCreds, destCreds |-> r.destCreds,
                                 arch |-> r.arch, taskArch |-> Architecture(r.arch)]]
  /\ RepoCreate(TaskID)
  /\ UNCHANGED <<apiVars, taskVars, hubVars, histVars, othersOfExec>>

\* -------------------------------------------- service.syncService.ExecuteSync
\* task, err := s.repo.Get(taskID)
E_Get ==
  /\ ex.pc = "get"
  /\ IF RepoHas(TaskID) THEN Goto("setRunning") ELSE Return
  /\ UNCHANGED <<apiVars, tasks, taskVars, hubVars, histVars, othersOfExec>>

\* mutant of E_SetRunning: the status is left as it is
E_SetRunning_Skip ==
  /\ ex.pc = "setRunning"
  /\ Goto("setSyncing")
  /\ UNCHANGED <<apiVars, tasks, taskVars, hubVars, histVars, othersOfExec>>

\* task.Status = models.StatusRunning
E_SetRunning ==
  /\ ex.pc = "setRunning"
  /\ Status' = StatusRunning
  /\ Goto("setSyncing")
  /\ UNCHANGED <<apiVars, tasks, Message, Output, ErrorOutput, EndTime, hubVars, histVars, othersOfExec>>

\* task.Message = "Syncing image..."; s.repo.Update(task)
E_SetSyncing ==
  /\ ex.pc = "setSyncing"
  /\ Message' = "Syncing image..."
  /\ RepoUpdate(TaskID)
  /\ IF RepoHas(TaskID) THEN Goto("logStart") ELSE Return
  /\ UNCHANGED <<apiVars, Status, Output, ErrorOutput, EndTime, hubVars, histVars, othersOfExec>>

\* task.AddLog("Task started at ...")
E_LogStart ==
  /\ ex.pc = "logStart"
  /\ AddLog(NewLine)
  /\ Goto("argsSrc")
  /\ UNCHANGED <<apiVars, tasks, taskVars, histVars, othersOfExec>>

\* buildSkopeoArgs: task.AddLog("Using source credentials")
E_ArgsSrc ==
  /\ ex.pc = "argsSrc"
  /\ IF ex.req.srcCreds THEN AddLog(NewLine)
                        ELSE UNCHANGED hubVars
  /\ Goto("argsDest")
  /\ UNCHANGED <<apiVars, tasks, taskVars, histVars, othersOfExec>>

\* buildSkopeoArgs: task.AddLog("Using destination credentials")
E_ArgsDest ==
  /\ ex.pc = "argsDest"
  /\ IF ex.req.destCreds THEN AddLog(NewLine)
                         ELSE UNCHANGED hubVars
  /\ Goto("argsArch")
  /\ UNCHANGED <<apiVars, tasks, taskVars, histVars, othersOfExec>>

\* buildSkopeoArgs: the architecture selection and its log line
E_ArgsArch ==
  /\ ex.pc = "argsArch"
  /\ IF ex.req.taskArch = <<"all">> THEN AddLog(NewLine)
     ELSE IF Len(ex.req.taskArch) >= 2 THEN AddLog(NewLine)
     ELSE UNCHANGED hubVars
  /\ ex' = [ex EXCEPT !.pc = "logExec", !.req = NoReq]
  /\ UNCHANGED <<apiVars, tasks, taskVars, histVars, othersOfExec>>

\* task.AddLog("Executing: ..."); ctx, cancel := context.WithTimeout(...)
E_LogExec ==
  /\ ex.pc = "logExec"
  /\ AddLog(NewLine)
  /\ ctx' = "active"
  /\ Goto("stdoutPipe")
  /\ UNCHANGED <<apiVars, tasks, taskVars, histVars, rd, proc, hs, sent>>

\* stdoutPipe, err := cmd.StdoutPipe()
E_StdoutPipe ==
  /\ ex.pc = "stdoutPipe"
  /\ \/ Goto("stderrPipe")
     \/ Fail("Failed to create stdout pipe", "pipe error")
  /\ UNCHANGED <<apiVars, tasks, taskVars, hubVars, histVars, othersOfExec>>

\* stderrPipe, err := cmd.StderrPipe()
E_StderrPipe ==
  /\ ex.pc = "stderrPipe"
  /\ \/ Goto("start")
     \/ Fail("Failed to create stderr pipe", "pipe error")
  /\ UNCHANGED <<apiVars, tasks, taskVars, hubVars, histVars, othersOfExec>>

\* cmd.Start(); on success the two readOutput goroutines are started
E_Start ==
  /\ ex.pc = "start"
  /\ \/ /\ ctx = "active"
        /\ proc' = "running"
        /\ rd' = [r \in Readers |-> [pc |-> "reading", n |-> 0]]
        /\ Goto("wait")
     \/ /\ Fail("Failed to start command", "start error")
        /\ UNCHANGED <<proc, rd>>
  /\ UNCHANGED <<apiVars, tasks, taskVars, hubVars, histVars, ctx, hs, sent>>

\* fmt.Errorf("command timeout after %ds", s.timeout)
CommandTimeout == "command timeout"
\* the error text tells a timeout from the other failures
HasTimeoutMarker(e) == e = CommandTimeout

\* mutant of E_Wait: the error of cmd.Wait is dropped
E_Wait_IgnoreErr ==
  /\ ex.pc = "wait"
  /\ proc \in {"exit0", "exit1", "killed"}
  /\ Goto("checkTimeout")
  /\ UNCHANGED <<apiVars, tasks, taskVars, hubVars, histVars, othersOfExec>>

\* err = cmd.Wait()
E_Wait ==
  /\ ex.pc = "wait"
  /\ proc \in {"exit0", "exit1", "killed"}
  /\ ex' = [ex EXCEPT !.pc = "checkTimeout",
                      !.err = CASE proc = "exit0" -> Nil
                                [] proc = "exit1" -> "exit status 1"
                                [] OTHER -> "signal: killed"]
  /\ UNCHANGED <<apiVars, tasks, taskVars, hubVars, histVars, othersOfExec>>

\* mutant of E_CheckTimeout: the context is not looked at after cmd.Wait
E_CheckTimeout_Skip ==
  /\ ex.pc = "checkTimeout"
  /\ Goto("waitReaders")
  /\ UNCHANGED <<apiVars, tasks, taskVars, hubVars, histVars, othersOfExec>>

\* if ctx.Err() == context.DeadlineExceeded { AddLog("Timeout exceeded"); err = ... }
E_CheckTimeout ==
  /\ ex.pc = "checkTimeout"
  /\ IF ctx = "expired"
       THEN /\ AddLog(NewLine)
            /\ ex' = [ex EXCEPT !.pc = "waitReaders", !.err = CommandTimeout]
       ELSE /\ Goto("waitReaders")
            /\ UNCHANGED hubVars
  /\ UNCHANGED <<apiVars, tasks, taskVars, histVars, othersOfExec>>

\* select { case <-done: }  -- both readers have called wg.Done
E_ReadersDone ==
  /\ ex.pc = "waitReaders"
  /\ \A r \in Readers : rd[r].pc = "done"
  /\ Goto("finalLog")
  /\ UNCHANGED <<apiVars, tasks, taskVars, hubVars, histVars, othersOfExec>>

\* mutant of E_GraceTimeout: a plain outputWg.Wait(), without the timer
E_GraceTimeout_Never ==
  /\ ex.pc = "waitReaders"
  /\ \A r \in Readers : rd[r].pc = "done"
  /\ Goto("finalLog")
  /\ UNCHANGED <<apiVars, tasks, taskVars, hubVars, histVars, othersOfExec>>

\* select { case <-time.After(5 * time.Second): }
E_GraceTimeout ==
  /\ ex.pc = "waitReaders"
  /\ \E r \in Readers : rd[r].pc # "done"
  /\ Goto("finalLog")
  /\ UNCHANGED <<apiVars, tasks, taskVars, hubVars, histVars, othersOfExec>>

\* task.AddLog("Sync failed: ...") or task.AddLog("Sync completed at ...")
E_FinalLog ==
  /\ ex.pc = "finalLog"
  /\ IF ex.err # Nil THEN AddLog(NewLine)
                     ELSE AddLog(NewLine)
  /\ Goto("closeAll")
  /\ UNCHANGED <<apiVars, tasks, taskVars, histVars, othersOfExec>>

\* task.CloseAllLogListeners()
E_CloseAll ==
  /\ ex.pc = "closeAll"
  /\ CloseAllLogListeners
  /\ closeAllCalls' = closeAllCalls + 1
  /\ lenAtClose' = Len(LogLines)
  /\ Goto("setEndTime")
  /\ UNCHANGED <<apiVars, tasks, taskVars, regAt, othersOfExec>>

\* task.EndTime = &endTime
E_SetEndTime ==
  /\ ex.pc = "setEndTime"
  /\ EndTime' = "set"
  /\ Goto("setOutput")
  /\ UNCHANGED <<apiVars, tasks, Status, Message, Output, ErrorOutput, hubVars, histVars, othersOfExec>>

\* task.Output = strings.Join(task.GetLogLines(), "\n"); the joined text is
\* kept as the sequence of the lines joined
E_SetOutput ==
  /\ ex.pc = "setOutput"
  /\ Output' = GetLogLines
  /\ Goto("setStatus")
  /\ UNCHANGED <<apiVars, tasks, Status, Message, ErrorOutput, EndTime, hubVars, histVars, othersOfExec>>

\* task.Status = models.StatusFailed / models.StatusCompleted
E_SetStatus ==
  /\ ex.pc = "setStatus"
  /\ Status' = IF ex.err # Nil THEN StatusFailed ELSE StatusCompleted
  /\ Goto("setMessage")
  /\ UNCHANGED <<apiVars, tasks, Message, Output, ErrorOutput, EndTime, hubVars, histVars, othersOfExec>>

\* task.Message = ...; task.ErrorOutput = err.Error()
E_SetMessage ==
  /\ ex.pc = "setMessage"
  /\ Message' = IF ex.err # Nil THEN "Sync failed" ELSE "Sync completed successfully"
  /\ ErrorOutput' = IF ex.err # Nil THEN ex.err ELSE ErrorOutput
  /\ Goto("update")
  /\ UNCHANGED <<apiVars, tasks, Status, Output, EndTime, hubVars, histVars, othersOfExec>>

\* s.repo.Update(task); return nil (the deferred cancel() runs)
E_Update ==
  /\ ex.pc = "update"
  /\ RepoUpdate(TaskID)
  /\ ctx' = "cancelled"
  /\ Return
  /\ UNCHANGED <<apiVars, taskVars, hubVars, histVars, rd, proc, hs, sent>>

\* ------------------------------------ service.syncService.handleTaskError
\* task.AddLog("Error: ...")
HE_Log ==
  /\ ex.pc = "heLog"
  /\ AddLog(NewLine)
  /\ Goto("heStatus")
  /\ UNCHANGED <<apiVars, tasks, taskVars, histVars, othersOfExec>>

\* task.Status = models.StatusFailed
HE_SetStatus ==
  /\ ex.pc = "heStatus"
  /\ Status' = StatusFailed
  /\ Goto("heMessage")
  /\ UNCHANGED <<apiVars, tasks, Message, Output, ErrorOutput, EndTime, hubVars, histVars, othersOfExec>>

\* task.Message = message; task.ErrorOutput = err.Error()
HE_SetMessage ==
  /\ ex.pc = "heMessage"
  /\ Message' = ex.msg
  /\ ErrorOutput' = ex.err
  /\ Goto("heEndTime")
  /\ UNCHANGED <<apiVars, tasks, Status, Output, EndTime, hubVars, histVars, othersOfExec>>

\* task.EndTime = &endTime
HE_SetEndTime ==
  /\ ex.pc = "heEndTime"
  /\ EndTime' = "set"
  /\ Goto("heUpdate")
  /\ UNCHANGED <<apiVars, tasks, Status, Message, Output, ErrorOutput, hubVars, histVars, othersOfExec>>

\* mutant of HE_Update: the caller drops the error and goes on with the job
HE_Update_FallThrough ==
  /\ ex.pc = "heUpdate"
  /\ RepoUpdate(TaskID)
  /\ ex' = [ex EXCEPT !.pc = "start", !.err = Nil]
  /\ UNCHANGED <<apiVars, taskVars, hubVars, histVars, rd, proc, ctx, hs, sent>>

\* s.repo.Update(task); return (the deferred cancel() of ExecuteSync runs)
HE_Update ==
  /\ ex.pc = "heUpdate"
  /\ RepoUpdate(TaskID)
  /\ ctx' = "cancelled"
  /\ Return
  /\ UNCHANGED <<apiVars, taskVars, hubVars, histVars, rd, proc, hs, sent>>

\* ------------------------------------------------ the external process
\* the process exits by itself, with code 0 or not
P_Exit ==
  /\ proc = "running"
  /\ \E code \in {"exit0", "exit1"} : proc' = code
  /\ UNCHANGED <<apiVars, tasks, taskVars, hubVars, histVars, ex, rd, ctx, hs, sent>>

\* mutant of Deadline: the context expires and the process is left running
Deadline_NoKill ==
  /\ ctx = "active"
  /\ ex.pc \in {"stdoutPipe", "stderrPipe", "start", "wait", "checkTimeout"}
  /\ ctx' = "expired"
  /\ UNCHANGED <<apiVars, tasks, taskVars, hubVars, histVars, ex, rd, proc, hs, sent>>

\* the deadline of context.WithTimeout passes; a running process is killed.
\* ExecuteSync consults the context for the last time at its timeout check,
\* after cmd.Wait has returned: a later expiry changes nothing.
Deadline ==
  /\ ctx = "active"
  /\ ex.pc \in {"stdoutPipe", "stderrPipe", "start", "wait", "checkTimeout"}
  /\ ctx' = "expired"
  /\ proc' = IF proc = "running" THEN "killed" ELSE proc
  /\ UNCHANGED <<apiVars, tasks, taskVars, hubVars, histVars, ex, rd, hs, sent>>

\* the lines the process has written so far
Written == rd["stdout"].n + rd["stderr"].n

\* ------------------------------------- service.syncService.readOutput
\* reader.ReadString('\n') returns a complete line; blank lines are skipped
R_Read(r) ==
  /\ rd[r].pc = "reading"
  /\ Written < MaxLines
  /\ \E blank \in BOOLEAN :
       IF blank
         THEN UNCHANGED <<hubVars, rd>>
         ELSE /\ AddLog(NewLine)
              /\ rd' = [rd EXCEPT ![r].n = @ + 1]
  /\ UNCHANGED <<apiVars, tasks, taskVars, histVars, ex, proc, ctx, hs, sent>>

\* reader.ReadString returns an error (EOF): a trailing partial line is
\* logged, then wg.Done()
R_EOF(r) ==
  /\ rd[r].pc = "reading"
  /\ \E partial \in BOOLEAN :
       IF partial /\ Written < MaxLines
         THEN /\ AddLog(NewLine)
              /\ rd' = [rd EXCEPT ![r] = [pc |-> "done", n |-> @.n + 1]]
         ELSE /\ rd' = [rd EXCEPT ![r].pc = "done"]
              /\ UNCHANGED hubVars
  /\ UNCHANGED <<apiVars, tasks, taskVars, histVars, ex, proc, ctx, hs, sent>>

\* ------------------------------------ handler.SyncHandler.StreamLogs
othersOfHandler == <<tasks, taskVars, ex, rd, proc, ctx>>

\* task, err := h.syncService.GetTask(id)
S_GetTask(h) ==
  /\ hs[h].pc = "idle"
  /\ hs' = [hs EXCEPT ![h].pc = IF RepoHas(TaskID) THEN "snapshot" ELSE "notfound"]
  /\ UNCHANGED <<apiVars, hubVars, histVars, sent, othersOfHandler>>

\* existingLogs := task.GetLogLines()
S_Snapshot(h) ==
  /\ hs[h].pc = "snapshot"
  /\ hs' = [hs EXCEPT ![h].pc = "readStatus", ![h].existingLogs = GetLogLines]
  /\ UNCHANGED <<apiVars, hubVars, histVars, sent, othersOfHandler>>

\* taskStatus := task.Status; the snapshot is written to the client; a
\* terminal taskStatus ends the call
S_ReadStatus(h) ==
  /\ hs[h].pc = "readStatus"
  /\ hs' = [hs EXCEPT ![h].existingLogs = <<>>,
                      ![h].pc = IF Status \in Terminal THEN "done" ELSE "subscribe"]
  /\ sent' = [sent EXCEPT ![h] = hs[h].existingLogs]
  /\ UNCHANGED <<apiVars, hubVars, histVars, othersOfHandler>>

\* logChan := task.AddLogListener()
S_Subscribe(h) ==
  /\ hs[h].pc = "subscribe"
  /\ AddLogListener(h)
  /\ UNCHANGED regAt
  /\ hs' = [hs EXCEPT ![h].pc = "recv"]
  /\ UNCHANGED <<apiVars, closeAllCalls, lenAtClose, sent, othersOfHandler>>

\* case line, ok := <-logChan: a line is written to the client, or the
\* channel is closed and drained
S_Recv(h) ==
  /\ hs[h].pc = "recv"
  /\ IF chans[h].buf # <<>>
       THEN /\ chans' = [chans EXCEPT ![h].buf = Tail(@)]
            /\ sent' = [sent EXCEPT ![h] = Append(@, Head(chans[h].buf))]
            /\ UNCHANGED hs
       ELSE /\ chans[h].closed
            /\ hs' = [hs EXCEPT ![h].pc = "sawClose"]
            /\ UNCHANGED <<chans, sent>>
  /\ UNCHANGED <<apiVars, LogLines, LogListeners, panicked, dropped, histVars, othersOfHandler>>

\* mutant of S_ClientGone: the job runs under the context of the request,
\* which is cancelled when the client goes away
S_ClientGone_CancelsJob(h) ==
  /\ hs[h].pc = "recv"
  /\ hs' = [hs EXCEPT ![h].pc = "gone"]
  /\ ctx' = IF ctx = "active" THEN "cancelled" ELSE ctx
  /\ UNCHANGED <<apiVars, hubVars, histVars, sent, tasks, taskVars, ex, rd, proc>>

\* case <-clientGone:
S_ClientGone(h) ==
  /\ hs[h].pc = "recv"
  /\ hs' = [hs EXCEPT ![h].pc = "gone"]
  /\ UNCHANGED <<apiVars, hubVars, histVars, sent, othersOfHandler>>

\* mutant of S_Remove: the handler closes its channel itself and leaves it in
\* the list of the task
S_Remove_CloseOnly(h) ==
  /\ hs[h].pc \in {"sawClose", "gone"}
  /\ chans' = [chans EXCEPT ![h].closed = TRUE]
  /\ panicked' = (panicked \/ chans[h].closed)
  /\ hs' = [hs EXCEPT ![h].pc = "done"]
  /\ sent' = [sent EXCEPT ![h] = <<>>]
  /\ UNCHANGED <<apiVars, LogLines, LogListeners, dropped, histVars, othersOfHandler>>

\* defer task.RemoveLogListener(logChan), on return; the response is complete
S_Remove(h) ==
  /\ hs[h].pc \in {"sawClose", "gone"}
  /\ RemoveLogListener(h)
  /\ hs' = [hs EXCEPT ![h].pc = "done"]
  /\ sent' = [sent EXCEPT ![h] = <<>>]
  /\ UNCHANGED <<apiVars, histVars, othersOfHandler>>

\* ------------------------------------------------------------ the system
Executor ==
  \/ E_Get \/ E_SetRunning \/ E_SetSyncing \/ E_LogStart
  \/ E_ArgsSrc \/ E_ArgsDest \/ E_ArgsArch \/ E_LogExec
  \/ E_StdoutPipe \/ E_StderrPipe \/ E_Start \/ E_Wait \/ E_CheckTimeout
  \/ E_ReadersDone \/ E_GraceTimeout \/ E_FinalLog \/ E_CloseAll
  \/ E_SetEndTime \/ E_SetOutput \/ E_SetStatus \/ E_SetMessage \/ E_Update
  \/ HE_Log \/ HE_SetStatus \/ HE_SetMessage \/ HE_SetEndTime \/ HE_Update

Next ==
  \/ SyncImage
  \/ Executor
  \/ P_Exit
  \/ Deadline
  \/ \E r \in Readers : R_Read(r) \/ R_EOF(r)
  \/ \E h \in Handlers :
       \/ S_GetTask(h) \/ S_Snapshot(h) \/ S_ReadStatus(h) \/ S_Subscribe(h)
       \/ S_Recv(h) \/ S_ClientGone(h) \/ S_Remove(h)

Spec == Init /\ [][Next]_vars

\* the goroutines of a job are scheduled fairly and the timers fire; the
\* process, the pipes and the clients are under no obligation
FairSpec ==
  /\ Spec
  /\ WF_vars(Executor)
  /\ WF_vars(Deadline)

\* ------------------------------------------------------------ TaskSpec
\* One models.SyncTask used through its methods alone, by concurrent callers
\* that call them in any order (every method runs under logMu, so each call
\* is one step).
TInit == InitOver(Callers) /\ ApiIdle

nonTaskVars == <<tasks, taskVars, ex, rd, proc, ctx, closeAllCalls, lenAtClose>>

\* task.AddLog(line)
T_AddLog ==
  /\ Len(LogLines) < MaxLog
  /\ AddLog(NewLine)
  /\ UNCHANGED <<apiVars, nonTaskVars, regAt, hs, sent>>

\* ch := task.AddLogListener()
T_AddLogListener(c) ==
  /\ ~chans[c].made
  /\ AddLogListener(c)
  /\ regAt' = [regAt EXCEPT ![c] = Len(LogLines)]
  /\ UNCHANGED <<apiVars, nonTaskVars, hs, sent>>

\* task.RemoveLogListener(ch), for a channel the caller holds
T_RemoveLogListener(c) ==
  /\ chans[c].made
  /\ RemoveLogListener(c)
  /\ UNCHANGED <<apiVars, nonTaskVars, regAt, hs, sent>>

\* task.CloseAllLogListeners()
T_CloseAllLogListeners ==
  /\ CloseAllLogListeners
  /\ UNCHANGED <<apiVars, nonTaskVars, regAt, hs, sent>>

\* logs := task.GetLogLines()
T_GetLogLines(c) ==
  /\ hs' = [hs EXCEPT ![c].existingLogs = GetLogLines]
  /\ UNCHANGED <<apiVars, nonTaskVars, hubVars, regAt, sent>>

\* msg := <-ch, with a line in the buffer
T_Recv(c) ==
  /\ chans[c].made
  /\ chans[c].buf # <<>>
  /\ chans' = [chans EXCEPT ![c].buf = Tail(@)]
  /\ sent' = [sent EXCEPT ![c] = Append(@, Head(chans[c].buf))]
  /\ UNCHANGED <<apiVars, nonTaskVars, LogLines, LogListeners, panicked, dropped, regAt, hs>>

TNext ==
  \/ T_AddLog
  \/ T_CloseAllLogListeners
  \/ \E c \in Callers :
       \/ T_AddLogListener(c) \/ T_RemoveLogListener(c)
       \/ T_GetLogLines(c) \/ T_Recv(c)

TaskSpec == TInit /\ [][TNext]_vars

\* ------------------------------------------------------------ RepoSpec
\* repository.InMemoryTaskRepository used through its five methods by
\* concurrent callers. Every method holds r.mu for its whole body, so each
\* call is one step. A task is a reference to a task object; two objects may
\* carry the same identifier.
IDs == {"t1", "t2", "t3"}
Objects == {"t1", "t1b", "t2", "t2b", "t3"}
\* task.ID
IDOf(o) ==
  CASE o \in {"t1", "t1b"} -> "t1"
    [] o \in {"t2", "t2b"} -> "t2"
    [] OTHER -> "t3"

ErrTaskNotFound == "task not found"

\* the orders in which range over a map can visit its keys
KeyOrders(m) ==
  { o \in [1..Cardinality(DOMAIN m) -> DOMAIN m] :
      \A i, j \in DOMAIN o : i # j => o[i] # o[j] }

\* r.tasks[task.ID] = task; return nil
Create(m, task) ==
  [tasks |-> [i \in (DOMAIN m) \cup {IDOf(task)} |->
                IF i = IDOf(task) THEN task ELSE m[i]],
   err |-> Nil]

\* task, exists := r.tasks[id]
Get(m, id) ==
  IF id \notin DOMAIN m
    THEN [task |-> Nil, err |-> ErrTaskNotFound]
    ELSE [task |-> m[id], err |-> Nil]

\* mutant of Update: the task is stored whether or not its id is known
Update_Upsert(m, task) ==
  [tasks |-> [i \in (DOMAIN m) \cup {IDOf(task)} |->
                IF i = IDOf(task) THEN task ELSE m[i]],
   err |-> IF IDOf(task) \notin DOMAIN m THEN ErrTaskNotFound ELSE Nil]

\* if _, exists := r.tasks[task.ID]; !exists { return ErrTaskNotFound }
\* r.tasks[task.ID] = task
Update(m, task) ==
  IF IDOf(task) \notin DOMAIN m
    THEN [tasks |-> m, err |-> ErrTaskNotFound]
    ELSE [tasks |-> [m EXCEPT ![IDOf(task)] = task], err |-> Nil]

\* mutant of Delete: the entry is left in the map
Delete_Keep(m, id) ==
  [tasks |-> m, err |-> IF id \notin DOMAIN m THEN ErrTaskNotFound ELSE Nil]

\* if _, exists := r.tasks[id]; !exists { return ErrTaskNotFound }
\* delete(r.tasks, id)
Delete(m, id) ==
  IF id \notin DOMAIN m
    THEN [tasks |-> m, err |-> ErrTaskNotFound]
    ELSE [tasks |-> [i \in (DOMAIN m) \ {id} |-> m[i]], err |-> Nil]

\* for _, task := range r.tasks { tasks = append(tasks, task) }: the slices
\* List can return, one for each iteration order of the map
List(m) == { [i \in DOMAIN o |-> m[o[i]]] : o \in KeyOrders(m) }

\* what the successful calls stored: the map the callers expect to find
StoredAfter(op, task, id, err) ==
  IF err # Nil THEN stored
  ELSE IF op \in {"Create", "Update"}
    THEN [i \in (DOMAIN stored) \cup {IDOf(task)} |->
            IF i = IDOf(task) THEN task ELSE stored[i]]
  ELSE IF op = "Delete"
    THEN [i \in (DOMAIN stored) \ {id} |-> stored[i]]
  ELSE stored

jobVars == <<taskVars, hubVars, histVars, ex, rd, proc, ctx, hs, sent, lq>>

RInit == InitOver(Handlers) /\ ApiIdle

\* repo.Create(task)
R_Create(o) ==
  LET r == Create(tasks, o) IN
    /\ tasks' = r.tasks
    /\ call' = [op |-> "Create", id |-> IDOf(o), arg |-> o, ret |-> Nil,
                err |-> r.err, list |-> <<>>]
    /\ stored' = StoredAfter("Create", o, IDOf(o), r.err)
    /\ UNCHANGED jobVars

\* repo.Get(id)
R_Get(id) ==
  LET r == Get(tasks, id) IN
    /\ call' = [op |-> "Get", id |-> id, arg |-> Nil, ret |-> r.task,
                err |-> r.err, list |-> <<>>]
    /\ UNCHANGED <<tasks, stored, jobVars>>

\* repo.Update(task)
R_Update(o) ==
  LET r == Update(tasks, o) IN
    /\ tasks' = r.tasks
    /\ call' = [op |-> "Update", id |-> IDOf(o), arg |-> o, ret |-> Nil,
                err |-> r.err, list |-> <<>>]
    /\ stored' = StoredAfter("Update", o, IDOf(o), r.err)
    /\ UNCHANGED jobVars

\* repo.Delete(id)
R_Delete(id) ==
  LET r == Delete(tasks, id) IN
    /\ tasks' = r.tasks
    /\ call' = [op |-> "Delete", id |-> id, arg |-> Nil, ret |-> Nil,
                err |-> r.err, list |-> <<>>]
    /\ stored' = StoredAfter("Delete", Nil, id, r.err)
    /\ UNCHANGED jobVars

\* repo.List()
R_List ==
  /\ \E l \in List(tasks) :
       call' = [op |-> "List", id |-> "", arg |-> Nil, ret |-> Nil,
                err |-> Nil, list |-> l]
  /\ UNCHANGED <<tasks, stored, jobVars>>

RNext ==
  \/ \E o \in Objects : R_Create(o) \/ R_Update(o)
  \/ \E id \in IDs : R_Get(id) \/ R_Delete(id)
  \/ R_List

RepoSpec == RInit /\ [][RNext]_vars

\* ----------------------------------------------------------- QuerySpec
\* service.syncService.ListTasks and sortTasks as functions of the list that
\* repo.List returned and of the request.

\* int arithmetic of the build: two's complement, IntBits wide
MaxInt == 2^(IntBits - 1) - 1
WrapInt(x) == ((x + 2^(IntBits - 1)) % 2^IntBits) - 2^(IntBits - 1)

DefaultPageSize == 20
MaxPageSize == 100

\* a *time.Time: <<>> is nil, <<t>> points at the time t
NilTime == <<>>
Times == {1, 2}

\* mutant of FilterByStatus: the status of the request is not looked at
FilterByStatus_All(ts, status) == ts

\* filtered := tasks; if req.Status != "" { keep the tasks with that status }
FilterByStatus(ts, status) ==
  IF status # "" THEN SelectSeq(ts, LAMBDA t : t.Status = status) ELSE ts

\* mutant of ShouldSwap: a nil EndTime goes last whatever the order asked for
ShouldSwap_NilLast(a, b, sortBy, sortOrder) ==
  IF sortBy = "endTime"
    THEN IF a.EndTime = NilTime /\ b.EndTime # NilTime THEN TRUE
         ELSE IF a.EndTime # NilTime /\ b.EndTime = NilTime THEN FALSE
         ELSE IF a.EndTime # NilTime /\ b.EndTime # NilTime
           THEN IF sortOrder = "desc" THEN a.EndTime[1] < b.EndTime[1]
                                      ELSE a.EndTime[1] > b.EndTime[1]
         ELSE FALSE
    ELSE IF sortOrder = "desc" THEN a.StartTime < b.StartTime
                               ELSE a.StartTime > b.StartTime

\* mutant of ShouldSwap: two tasks with equal times are swapped too
ShouldSwap_NonStrict(a, b, sortBy, sortOrder) ==
  IF sortBy = "endTime"
    THEN IF a.EndTime = NilTime /\ b.EndTime # NilTime THEN sortOrder = "asc"
         ELSE IF a.EndTime # NilTime /\ b.EndTime = NilTime THEN sortOrder = "desc"
         ELSE IF a.EndTime # NilTime /\ b.EndTime # NilTime
           THEN IF sortOrder = "desc" THEN a.EndTime[1] <= b.EndTime[1]
                                      ELSE a.EndTime[1] >= b.EndTime[1]
         ELSE FALSE
    ELSE IF sortOrder = "desc" THEN a.StartTime <= b.StartTime
                               ELSE a.StartTime >= b.StartTime

\* shouldSwap for tasks[j] = a and tasks[j+1] = b
ShouldSwap(a, b, sortBy, sortOrder) ==
  IF sortBy = "endTime"
    THEN IF a.EndTime = NilTime /\ b.EndTime # NilTime THEN sortOrder = "asc"
         ELSE IF a.EndTime # NilTime /\ b.EndTime = NilTime THEN sortOrder = "desc"
         ELSE IF a.EndTime # NilTime /\ b.EndTime # NilTime
           THEN IF sortOrder = "desc" THEN a.EndTime[1] < b.EndTime[1]
                                      ELSE a.EndTime[1] > b.EndTime[1]
         ELSE FALSE
    ELSE IF sortOrder = "desc" THEN a.StartTime < b.StartTime
                               ELSE a.StartTime > b.StartTime

\* tasks[j], tasks[j+1] = tasks[j+1], tasks[j]
SwapAt(ts, j) == [ts EXCEPT ![j] = ts[j + 1], ![j + 1] = ts[j]]

RECURSIVE BubblePass(_, _, _, _, _)
\* the inner loop, for j up to and including last (positions count from 1)
BubblePass(ts, j, last, sortBy, sortOrder) ==
  IF j > last THEN ts
  ELSE BubblePass(IF ShouldSwap(ts[j], ts[j + 1], sortBy, sortOrder)
                    THEN SwapAt(ts, j) ELSE ts,
                  j + 1, last, sortBy, sortOrder)

RECURSIVE BubbleLoop(_, _, _, _)
\* the outer loop: for i := 0; i < len(tasks)-1; i++
BubbleLoop(ts, i, sortBy, sortOrder) ==
  IF i >= Len(ts) - 1 THEN ts
  ELSE BubbleLoop(BubblePass(ts, 1, Len(ts) - i - 1, sortBy, sortOrder),
                  i + 1, sortBy, sortOrder)

sortTasks(ts, sortBy, sortOrder) ==
  IF Len(ts) <= 1 THEN ts ELSE BubbleLoop(ts, 0, sortBy, sortOrder)

\* mutant of EffectivePageSize: the upper limit is not applied
EffectivePageSize_NoMax(pageSize) ==
  IF pageSize < 1 THEN DefaultPageSize ELSE pageSize

\* if pageSize < 1 { pageSize = 20 }; if pageSize > 100 { pageSize = 100 }
EffectivePageSize(pageSize) ==
  LET p == IF pageSize < 1 THEN DefaultPageSize ELSE pageSize
  IN IF p > MaxPageSize THEN MaxPageSize ELSE p

\* &models.TaskSummary{...}: the task without its logs
Summary(t) ==
  [ID |-> t.ID, Status |-> t.Status, StartTime |-> t.StartTime, EndTime |-> t.EndTime]

\* the response of ListTasks; filtered[start:end] panics when start < 0 or
\* end < start (end <= len(filtered) holds after the two clamps)
ListTasks(ts, req) ==
  LET filtered == sortTasks(FilterByStatus(ts, req.Status), req.SortBy, req.SortOrder)
      total == Len(filtered)
      page == IF req.Page < 1 THEN 1 ELSE req.Page
      pageSize == EffectivePageSize(req.PageSize)
      start0 == WrapInt((page - 1) * pageSize)
      end0 == WrapInt(start0 + pageSize)
      start == IF start0 > total THEN total ELSE start0
      end == IF end0 > total THEN total ELSE end0
  IN IF start < 0 \/ end < start
       THEN [kind |-> "panic"]
       ELSE [kind |-> "list", Total |-> total, Page |-> page, PageSize |-> pageSize,
             Tasks |-> [i \in 1..(end - start) |-> Summary(filtered[start + i])]]

\* the tasks a list can hold: a running task has no EndTime, a completed one
\* has one; the i-th task of a list carries the identifier i
TaskShapes ==
  { [Status |-> IF e = NilTime THEN StatusRunning ELSE StatusCompleted,
     StartTime |-> st, EndTime |-> e] :
      st \in Times, e \in {NilTime} \cup { <<t>> : t \in Times } }

TaskLists ==
  UNION { { [i \in 1..n |-> [ID |-> i, Status |-> f[i].Status,
                               StartTime |-> f[i].StartTime, EndTime |-> f[i].EndTime]] :
              f \in [1..n -> TaskShapes] } : n \in 0..MaxTasks }

\* the sort fields and orders a request can carry ("" when not given)
SortBys == {"startTime", "endTime", ""}
SortOrders == {"asc", "desc", ""}

ListRequests ==
  { [Page |-> p, PageSize |-> ps, Status |-> st, SortBy |-> so[1], SortOrder |-> so[2]] :
      p \in {-1, 1, 2, 3, MaxInt},
      ps \in {-1, 0, 1, 2, MaxPageSize, MaxPageSize + 1},
      st \in {"", StatusRunning, StatusCompleted, StatusFailed},
      so \in {<<"startTime", "desc">>, <<"endTime", "asc">>, <<"", "">>, <<"", "desc">>} }

\* a call of ListTasks or of sortTasks about to be made, on any list
QInit ==
  /\ InitOver(Handlers)
  /\ call = NoCall
  /\ stored = <<>>
  /\ \/ \E ts \in TaskLists, r \in ListRequests :
          lq = [kind |-> "list", tasks |-> ts, req |-> r, resp |-> NoResp]
     \/ \E ts \in TaskLists, sb \in SortBys, so \in SortOrders :
          lq = [kind |-> "sort", tasks |-> ts,
                req |-> [SortBy |-> sb, SortOrder |-> so], resp |-> NoResp]

queryOthers == <<tasks, taskVars, hubVars, histVars, ex, rd, proc, ctx, hs, sent, call, stored>>

\* resp, err := s.ListTasks(req)
Q_ListTasks ==
  /\ lq.kind = "list"
  /\ lq.resp = NoResp
  /\ lq' = [lq EXCEPT !.resp = ListTasks(lq.tasks, lq.req)]
  /\ UNCHANGED queryOthers

\* sortTasks(tasks, sortBy, sortOrder), which sorts the slice in place
Q_sortTasks ==
  /\ lq.kind = "sort"
  /\ lq.resp = NoResp
  /\ lq' = [lq EXCEPT !.resp = [kind |-> "sorted",
                                 Tasks |-> sortTasks(lq.tasks, lq.req.SortBy, lq.req.SortOrder)]]
  /\ UNCHANGED queryOthers

QNext == Q_ListTasks \/ Q_sortTasks

QuerySpec == QInit /\ [][QNext]_vars

\* ------------------------------------------------ the skopeo command line
\* A string is a sequence of pieces: the words of the program text and the
\* opaque parts of the inputs. Concatenation is \o, the empty string <<>>.
\* strings.HasPrefix(s, prefix)
HasPrefix(s, prefix) ==
  Len(s) >= Len(prefix) /\ SubSeq(s, 1, Len(prefix)) = prefix

RECURSIVE Split(_, _)
\* strings.Split(s, sep) for a separator of one piece
Split(s, sep) ==
  IF \A i \in 1..Len(s) : s[i] # sep
    THEN <<s>>
    ELSE LET k == CHOOSE i \in 1..Len(s) :
                    s[i] = sep /\ \A j \in 1..(i - 1) : s[j] # sep
         IN <<SubSeq(s, 1, k - 1)>> \o Split(SubSeq(s, k + 1, Len(s)), sep)

RECURSIVE Join(_, _)
\* strings.Join(elems, sep)
Join(elems, sep) ==
  IF elems = <<>> THEN <<>>
  ELSE IF Len(elems) = 1 THEN elems[1]
  ELSE elems[1] \o <<sep>> \o Join(Tail(elems), sep)

\* fmt.Sprintf("%s:%s", username, password)
CredsArg(username, password) == username \o <<":">> \o password

\* fmt.Sprintf("--src-tls-verify=%v", v) for a *bool option: <<>> is nil
TLSFlag(flag, option) ==
  <<flag, "=", IF option = <<FALSE>> THEN "false" ELSE "true">>

\* CreateSyncTask: the task made for a request, as far as the command uses it
NewSyncTask(req) ==
  [Architecture |-> Architecture(req.Architecture),
   SourceImage |-> Str("src"), DestImage |-> Str("dest")]

\* mutant of buildSkopeoArgs: a credential flag for a side as soon as either
\* its username or its password is given
buildSkopeoArgs_EitherCred(task, req) ==
  LET src == req.SourceUsername # <<>> \/ req.SourcePassword # <<>>
      dest == req.DestUsername # <<>> \/ req.DestPassword # <<>>
  IN [args |-> <<Str("copy"), TLSFlag("--src-tls-verify", req.SrcTLSVerify),
                 TLSFlag("--dest-tls-verify", req.DestTLSVerify)>>
               \o (IF src THEN <<Str("--src-creds"),
                                 CredsArg(req.SourceUsername, req.SourcePassword)>>
                          ELSE <<>>)
               \o (IF dest THEN <<Str("--dest-creds"),
                                  CredsArg(req.DestUsername, req.DestPassword)>>
                           ELSE <<>>)
               \o <<Str("--all")>>
               \o <<<<"docker://">> \o task.SourceImage,
                    <<"docker://">> \o task.DestImage>>,
      logs |-> (IF src THEN <<Str("Using source credentials")>> ELSE <<>>)
               \o (IF dest THEN <<Str("Using destination credentials")>> ELSE <<>>)
               \o <<Str("Copying all architectures")>>]

\* buildSkopeoArgs(task, req): the arguments and the lines it adds to the log
buildSkopeoArgs(task, req) ==
  LET src == req.SourceUsername # <<>> /\ req.SourcePassword # <<>>
      dest == req.DestUsername # <<>> /\ req.DestPassword # <<>>
      parts == Split(task.Architecture, "/")
      split == task.Architecture # Str("all") /\ task.Architecture # <<>>
               /\ Len(parts) >= 2
  IN [args |-> <<Str("copy"), TLSFlag("--src-tls-verify", req.SrcTLSVerify),
                 TLSFlag("--dest-tls-verify", req.DestTLSVerify)>>
               \o (IF src THEN <<Str("--src-creds"),
                                 CredsArg(req.SourceUsername, req.SourcePassword)>>
                          ELSE <<>>)
               \o (IF dest THEN <<Str("--dest-creds"),
                                  CredsArg(req.DestUsername, req.DestPassword)>>
                           ELSE <<>>)
               \o (IF task.Architecture = Str("all") THEN <<Str("--all")>>
                   ELSE IF split
                     THEN <<Str("--override-os"), parts[1],
                            Str("--override-arch"), parts[2]>>
                          \o (IF Len(parts) > 2
                                THEN <<Str("--override-variant"), parts[3]>>
                                ELSE <<>>)
                   ELSE <<>>)
               \o <<<<"docker://">> \o task.SourceImage,
                    <<"docker://">> \o task.DestImage>>,
      logs |-> (IF src THEN <<Str("Using source credentials")>> ELSE <<>>)
               \o (IF dest THEN <<Str("Using destination credentials")>> ELSE <<>>)
               \o (IF task.Architecture = Str("all")
                     THEN <<Str("Copying all architectures")>>
                   ELSE IF split
                     THEN <<<<"Copying architecture: ">> \o task.Architecture>>
                   ELSE <<>>)]

\* "***:***"
Mask == <<"***", ":", "***">>

\* the arguments that make sanitizeCommand mask the next one
CredFlags == {Str("--creds"), Str("--src-creds"), Str("--dest-creds")}

RECURSIVE SanitizeFrom(_, _, _)
\* the loop of sanitizeCommand from argument i on
SanitizeFrom(args, i, skipNext) ==
  IF i > Len(args) THEN <<>>
  ELSE IF skipNext THEN <<Mask>> \o SanitizeFrom(args, i + 1, FALSE)
  ELSE IF \/ HasPrefix(args[i], <<"--src-creds", "=">>)
          \/ HasPrefix(args[i], <<"--dest-creds", "=">>)
    THEN <<Split(args[i], "=")[1] \o <<"=">> \o Mask>>
         \o SanitizeFrom(args, i + 1, FALSE)
  ELSE IF args[i] \in CredFlags
    THEN <<args[i]>> \o SanitizeFrom(args, i + 1, TRUE)
  ELSE <<args[i]>> \o SanitizeFrom(args, i + 1, FALSE)

\* mutant of sanitizeCommand: the arguments are logged as they are
sanitizeCommand_Plain(args) == <<"skopeo", " ">> \o Join(args, " ")

\* sanitizeCommand(args)
sanitizeCommand(args) ==
  <<"skopeo", " ">> \o Join(SanitizeFrom(args, 1, FALSE), " ")

\* the usernames and passwords of the requests, one of them shaped like a
\* credential flag
Usernames == {<<>>, Str("alice"), <<"--src-creds", "=", "bob">>}
Passwords == {<<>>, Str("pw1"), Str("--creds")}
Architectures ==
  {<<>>, <<"linux", "/", "amd64">>, <<"linux", "/", "arm", "/", "v7">>, Str("amd64")}

\* two jobs are submitted; their requests agree on everything but the
\* credentials
CInit ==
  /\ InitOver(Handlers)
  /\ call = NoCall
  /\ stored = <<>>
  /\ \E su1, su2, du1, du2 \in Usernames, sp1, sp2, dp1, dp2 \in Passwords,
        a \in Architectures, tls \in {<<>>, <<FALSE>>} :
       lq = [kind |-> "cmd",
             reqs |-> << [SourceUsername |-> su1, SourcePassword |-> sp1,
                          DestUsername |-> du1, DestPassword |-> dp1,
                          Architecture |-> a,
                          SrcTLSVerify |-> tls, DestTLSVerify |-> <<>>],
                         [SourceUsername |-> su2, SourcePassword |-> sp2,
                          DestUsername |-> du2, DestPassword |-> dp2,
                          Architecture |-> a,
                          SrcTLSVerify |-> tls, DestTLSVerify |-> <<>>] >>,
             built |-> NoResp, resp |-> NoResp]

\* args := s.buildSkopeoArgs(task, req), in both jobs
C_buildSkopeoArgs ==
  /\ lq.kind = "cmd"
  /\ lq.built = NoResp
  /\ lq' = [lq EXCEPT !.built =
              [i \in 1..2 |-> buildSkopeoArgs(NewSyncTask(lq.reqs[i]), lq.reqs[i])]]
  /\ UNCHANGED queryOthers

\* sanitizedCmd := sanitizeCommand(args); task.AddLog("Executing: ..."), in
\* both jobs
C_sanitizeCommand ==
  /\ lq.kind = "cmd"
  /\ lq.built # NoResp
  /\ lq.resp = NoResp
  /\ lq' = [lq EXCEPT !.resp =
              [i \in 1..2 |-> <<"Executing: ">> \o sanitizeCommand(lq.built[i].args)]]
  /\ UNCHANGED queryOthers

CNext == C_buildSkopeoArgs \/ C_sanitizeCommand

CmdSpec == CInit /\ [][CNext]_vars

\* ================================================================ claims
Launched == ex.pc # "idle"
ExecutorDone == ex.pc = "done"

\* C1: the status is terminal (and EndTime set) before the executor closes
\* the subscriber queues: once CloseAllLogListeners has been called, and in
\* particular whenever a StreamLogs call has seen its queue closed, the task
\* reads as Completed or Failed with EndTime set.
C1_TerminalBeforeClose ==
  /\ closeAllCalls > 0 => Status \in Terminal
  /\ \A h \in Handlers :
       hs[h].pc = "sawClose" => Status \in Terminal /\ EndTime # Nil

\* C2: once ExecuteSync has been launched for a task, the task eventually
\* reaches Completed or Failed, whatever the process does.
C2_EventuallyTerminal == Launched ~> (Status \in Terminal)

\* C2 witness: a job whose process never exited by itself was killed at the
\* deadline and finalized.
C2_Witness == ExecutorDone /\ proc = "killed" /\ Status = StatusFailed

\* C3: on every path of the executor CloseAllLogListeners is called exactly
\* once, and only after the terminal status and EndTime have been set.
C3_CloseAllOnceAfterTerminal ==
  /\ ExecutorDone => closeAllCalls = 1
  /\ closeAllCalls > 0 => Status \in Terminal /\ EndTime # Nil

\* C4: the status only moves Pending -> Running -> {Completed | Failed}; a
\* terminal status never changes again.
C4_StatusMonotone ==
  [][ Status' # Status =>
        \/ Status = StatusPending /\ Status' = StatusRunning
        \/ Status = StatusRunning /\ Status' \in Terminal ]_vars

\* C4 witness: a job that ran to the end and was finalized as Completed.
C4_Witness == ExecutorDone /\ Status = StatusCompleted

\* C5: in every state EndTime is set if and only if the status is Completed
\* or Failed.
C5_EndTimeIffTerminal == (EndTime # Nil) <=> (Status \in Terminal)

\* C6: when a StreamLogs call reaches the end of its stream without its queue
\* ever having been full, what it wrote to the client (the replayed snapshot,
\* then the lines of the live queue) is the log up to the end of the stream,
\* each line once and in order.
C6_NoGapNoDuplicate ==
  \A h \in Handlers :
    (hs[h].pc = "sawClose" /\ h \notin dropped)
      => sent[h] = SubSeq(LogLines, 1, lenAtClose)

\* C7: when the status is terminal and the executor has finished, no
\* subscriber queue is registered.
C7_NoListenersAfterEnd ==
  (Status \in Terminal /\ ExecutorDone) => LogListeners = <<>>

\* C8: AddLog never waits: it can always be called, and one call appends the
\* line to the log and enqueues it to exactly the registered queues that have
\* room, leaving a full queue, and every unregistered one, as it was.
C8_AddLogNeverWaits ==
  [][ /\ Len(LogLines) < MaxLog => ENABLED T_AddLog
      /\ LogLines' # LogLines =>
           /\ Len(LogLines') = Len(LogLines) + 1
           /\ IsPrefix(LogLines, LogLines')
           /\ LogListeners' = LogListeners
           /\ \A c \in DOMAIN chans :
                chans'[c] =
                  IF c \in Range(LogListeners) /\ Len(chans[c].buf) < ChanCap
                    THEN [chans[c] EXCEPT !.buf = Append(@, LogLines'[Len(LogLines')])]
                    ELSE chans[c] ]_vars

\* C8 witness: the last line was dropped for a subscriber whose queue is full
\* and delivered to another subscriber.
C8_Witness ==
  \E c, d \in Callers :
    /\ c \in Range(LogListeners) /\ d \in Range(LogListeners)
    /\ c \in dropped /\ Len(chans[c].buf) = ChanCap
    /\ chans[c].buf[ChanCap] # Len(LogLines)
    /\ chans[d].buf # <<>> /\ chans[d].buf[Len(chans[d].buf)] = Len(LogLines)

\* C9: the log is append-only: every step leaves the old log a prefix of the
\* new one, and what GetLogLines returned is a prefix of the log, in order.
C9_AppendOnly ==
  [][ /\ IsPrefix(LogLines, LogLines')
      /\ \A c \in DOMAIN hs : IsPrefix(hs'[c].existingLogs, LogLines') ]_vars

\* C9 witness: a snapshot taken earlier, lines appended since, and a queue
\* registered and closed meanwhile.
C9_Witness ==
  \E c, d \in Callers :
    /\ hs[c].existingLogs # <<>> /\ Len(hs[c].existingLogs) + 2 <= Len(LogLines)
    /\ chans[d].closed

\* C10: what a subscriber has received and still has pending on its queue is
\* an order-preserving subsequence of the lines appended after it registered.
C10_QueueIsSubsequence ==
  \A c \in DOMAIN chans :
    chans[c].made =>
      IsSubseq(sent[c] \o chans[c].buf,
               SubSeq(LogLines, regAt[c] + 1, Len(LogLines)))

\* C10 witness: a subscriber that lost a line to a full queue and has lines
\* from both sides of the loss, and another that registered after the first
\* line and has received a line.
C10_Witness ==
  \E c, d \in Callers :
    /\ c \in dropped /\ sent[c] # <<>>
    /\ \E i \in 1..(Len(chans[c].buf) - 1) : chans[c].buf[i + 1] > chans[c].buf[i] + 1
    /\ regAt[d] >= 1 /\ sent[d] # <<>>

\* C11: a process that is running either exits by itself or is killed at the
\* deadline, and then the task is finalized as Failed with an error output
\* that carries the timeout marker; the error output of a plain non-zero exit
\* does not carry it.
C11_TimeoutFinalized ==
  /\ (proc = "running") ~>
        \/ proc \in {"exit0", "exit1"}
        \/ proc = "killed" /\ Status = StatusFailed /\ HasTimeoutMarker(ErrorOutput)
  /\ [](ctx = "expired" => proc # "running")
  /\ []((ex.pc = "update" /\ proc = "exit1" /\ ctx # "expired")
          => Status = StatusFailed /\ ErrorOutput # "" /\ ~HasTimeoutMarker(ErrorOutput))

\* C11 witness: a job whose process was killed at the deadline has been
\* finalized with the timeout error.
C11_Witness ==
  /\ ExecutorDone /\ proc = "killed"
  /\ Status = StatusFailed /\ HasTimeoutMarker(ErrorOutput)

\* the process was started: cmd.Start returned nil
Started == proc # "none"

C13_FailedHasErrorOutput == Status = StatusFailed => ErrorOutput # ""

\* the job ended in handleTaskError: a pipe could not be made or the process
\* could not be started
EndedInTaskError == ExecutorDone /\ ~Started /\ Status = StatusFailed

\* C14: a job that fails at a pipe or at the start of the process is
\* finalized like every other job: Failed, EndTime set, ErrorOutput set,
\* Output set from the log, written back to the repository, no reader running.
C14_ErrorPathFinalized ==
  EndedInTaskError =>
    /\ EndTime # Nil
    /\ ErrorOutput # ""
    /\ Output = LogLines
    /\ RepoHas(TaskID)
    /\ \A r \in Readers : rd[r].pc # "reading"

\* C15: Get, Update and Delete on an identifier that is not stored return
\* ErrTaskNotFound and leave the repository as it was; Update of an unknown
\* task does not insert it.
C15_NotFoundLeavesRepo ==
  [][ (call'.op \in {"Get", "Update", "Delete"} /\ call'.id \notin DOMAIN tasks)
        => /\ call'.err = ErrTaskNotFound
           /\ call'.ret = Nil
           /\ tasks' = tasks
           /\ call'.id \notin DOMAIN tasks' ]_vars

\* C15 witness: an Update of a task whose id is not stored, made while
\* another task is stored, returned ErrTaskNotFound.
C15_Witness ==
  /\ call.op = "Update" /\ call.err = ErrTaskNotFound
  /\ DOMAIN tasks # {} /\ call.id \notin DOMAIN tasks

\* C16: the repository is an atomic map: Get(id) returns the task stored
\* last under id by a successful Create or Update and not deleted since, and
\* ErrTaskNotFound when there is none; List returns the stored tasks, one
\* entry for each stored id, in some order.
C16_AtomicMap ==
  /\ DOMAIN tasks = DOMAIN stored
  /\ \A id \in DOMAIN stored : tasks[id] = stored[id]
  /\ call.op = "Get" =>
       IF call.id \in DOMAIN stored
         THEN call.err = Nil /\ call.ret = stored[call.id]
         ELSE call.err = ErrTaskNotFound /\ call.ret = Nil
  /\ call.op = "List" =>
       /\ call.err = Nil
       /\ Len(call.list) = Cardinality(DOMAIN stored)
       /\ Range(call.list) = { stored[id] : id \in DOMAIN stored }
  /\ call.op = "Create" => call.err = Nil

\* C16 witness: a Get returned the task stored by an Update that replaced the
\* one created first, while a second id is stored too.
C16_Witness ==
  /\ call.op = "Get" /\ call.ret = "t1b" /\ call.err = Nil
  /\ DOMAIN stored = {"t1", "t2"}

\* ListTasks returned a response
Listed == lq.kind = "list" /\ lq.resp.kind = "list"

\* C17 (as stated): a requested page size above 100 gives the effective page
\* size 100, and one below 1 gives the effective page size 1.
C17_PageSizeClamped ==
  Listed =>
    /\ lq.req.PageSize > MaxPageSize => lq.resp.PageSize = MaxPageSize
    /\ lq.req.PageSize < 1 => lq.resp.PageSize = 1

\* C17 (amended): a requested page size above 100 gives the effective page
\* size 100, one below 1 gives the default page size 20, and any other is
\* kept; the effective page size is the one in the response and no page holds
\* more summaries than it.
C17_PageSizeDefaulted ==
  Listed =>
    /\ lq.req.PageSize > MaxPageSize => lq.resp.PageSize = MaxPageSize
    /\ lq.req.PageSize < 1 => lq.resp.PageSize = DefaultPageSize
    /\ lq.req.PageSize \in 1..MaxPageSize => lq.resp.PageSize = lq.req.PageSize
    /\ Len(lq.resp.Tasks) <= lq.resp.PageSize

\* C17 witness: a request with page size 0 was answered with page size 20 and
\* a full list, and the list holds more tasks than a page size of 1 allows.
C17_Witness ==
  /\ Listed /\ lq.req.PageSize = 0
  /\ lq.resp.PageSize = DefaultPageSize /\ Len(lq.resp.Tasks) = MaxTasks

\* C18: ListTasks returns the summaries of the filtered, sorted list at the
\* positions [(page-1)*pageSize, page*pageSize) cut to [0, total], a page
\* below 1 counting as 1: min(pageSize, max(0, total - (page-1)*pageSize))
\* summaries, none and no error for a page beyond the end.
C18_Window ==
  (lq.kind = "list" /\ lq.resp # NoResp) =>
    LET req == lq.req
        sorted == sortTasks(FilterByStatus(lq.tasks, req.Status), req.SortBy, req.SortOrder)
        total == Len(sorted)
        page == IF req.Page < 1 THEN 1 ELSE req.Page
        ps == EffectivePageSize(req.PageSize)
        lo == IF (page - 1) * ps > total THEN total ELSE (page - 1) * ps
        hi == IF page * ps > total THEN total ELSE page * ps
        rest == IF total - (page - 1) * ps < 0 THEN 0 ELSE total - (page - 1) * ps
    IN /\ lq.resp.kind = "list"
       /\ lq.resp.Total = total
       /\ lq.resp.Tasks = [i \in 1..(hi - lo) |-> Summary(sorted[lo + i])]
       /\ Len(lq.resp.Tasks) = IF ps < rest THEN ps ELSE rest

\* the tasks of the list that a request with this status filter is about
Matching(ts, status) ==
  { i \in 1..Len(ts) : status = "" \/ ts[i].Status = status }

\* C19: with a status filter the summaries returned all have that status and
\* the total is the number of tasks of the list with that status; with no
\* filter the total is the number of all tasks; the total is the same for
\* every page and page size.
C19_FilterAndTotal ==
  Listed =>
    /\ lq.resp.Total = Cardinality(Matching(lq.tasks, lq.req.Status))
    /\ \A k \in 1..Len(lq.resp.Tasks) :
         /\ lq.resp.Tasks[k].ID \in Matching(lq.tasks, lq.req.Status)
         /\ lq.resp.Tasks[k] = Summary(lq.tasks[lq.resp.Tasks[k].ID])
         /\ lq.req.Status # "" => lq.resp.Tasks[k].Status = lq.req.Status

\* C19 witness: a filter that some tasks of the list pass and others do not,
\* answered with the second page of the tasks that pass.
C19_Witness ==
  /\ Listed /\ lq.req.Status = StatusRunning /\ lq.req.Page = 2
  /\ lq.resp.Total = 2 /\ Len(lq.tasks) = MaxTasks
  /\ Len(lq.resp.Tasks) = 1

\* C20: sorted by completion time, ascending, every task without an EndTime
\* comes after every task with one, and descending before; the tasks with an
\* EndTime are in the order asked for; the result holds the tasks of the
\* input.
C20_NilEndTimeOrder ==
  (lq.kind = "sort" /\ lq.resp # NoResp /\ lq.req.SortBy = "endTime"
     /\ lq.req.SortOrder \in {"asc", "desc"}) =>
    LET out == lq.resp.Tasks IN
      /\ Len(out) = Len(lq.tasks)
      /\ Range(out) = Range(lq.tasks)
      /\ \A i, j \in 1..Len(out) :
           i < j =>
             IF lq.req.SortOrder = "asc"
               THEN /\ out[i].EndTime = NilTime => out[j].EndTime = NilTime
                    /\ (out[i].EndTime # NilTime /\ out[j].EndTime # NilTime)
                         => out[i].EndTime[1] <= out[j].EndTime[1]
               ELSE /\ out[j].EndTime = NilTime => out[i].EndTime = NilTime
                    /\ (out[i].EndTime # NilTime /\ out[j].EndTime # NilTime)
                         => out[i].EndTime[1] >= out[j].EndTime[1]

\* C20 witness: a descending sort moved a task without an EndTime from the
\* end of the list to the front, ahead of two tasks with different EndTimes
\* that changed places.
C20_Witness ==
  /\ lq.kind = "sort" /\ lq.resp # NoResp
  /\ lq.req.SortBy = "endTime" /\ lq.req.SortOrder = "desc"
  /\ Len(lq.tasks) = 3
  /\ lq.tasks[3].EndTime = NilTime
  /\ lq.tasks[1].EndTime # NilTime /\ lq.tasks[2].EndTime # NilTime
  /\ lq.resp.Tasks[1].ID = 3 /\ lq.resp.Tasks[2].ID = 2 /\ lq.resp.Tasks[3].ID = 1

\* a may stand before b in a list ordered by the field and direction
InOrder(a, b, sortBy, sortOrder) ==
  IF sortBy = "endTime"
    THEN IF sortOrder = "asc"
           THEN /\ a.EndTime = NilTime => b.EndTime = NilTime
                /\ (a.EndTime # NilTime /\ b.EndTime # NilTime)
                     => a.EndTime[1] <= b.EndTime[1]
           ELSE /\ b.EndTime = NilTime => a.EndTime = NilTime
                /\ (a.EndTime # NilTime /\ b.EndTime # NilTime)
                     => a.EndTime[1] >= b.EndTime[1]
    ELSE IF sortOrder = "asc" THEN a.StartTime <= b.StartTime
                              ELSE a.StartTime >= b.StartTime

\* a and b have the same sort key
SameKey(a, b, sortBy) ==
  IF sortBy = "endTime" THEN a.EndTime = b.EndTime ELSE a.StartTime = b.StartTime

\* sortTasks has returned
Sorted == lq.kind = "sort" /\ lq.resp # NoResp

\* C21: sortTasks is a stable sort: the result holds the tasks of the input,
\* each once, ordered by the field and direction asked for, and two tasks
\* with equal keys stand in the order they had in the input (the i-th task of
\* the input carries the identifier i).
C21_StableSort ==
  (Sorted /\ lq.req.SortOrder \in {"asc", "desc"}) =>
    LET out == lq.resp.Tasks
        by == IF lq.req.SortBy = "endTime" THEN "endTime" ELSE "startTime"
    IN /\ Len(out) = Len(lq.tasks)
       /\ Range(out) = Range(lq.tasks)
       /\ \A i, j \in 1..Len(out) :
            i < j =>
              /\ InOrder(out[i], out[j], by, lq.req.SortOrder)
              /\ SameKey(out[i], out[j], by) => out[i].ID < out[j].ID

\* C21 witness: a sort by start time moved the first task behind two later
\* tasks with equal start times, which kept their order.
C21_Witness ==
  /\ Sorted /\ lq.req.SortBy = "startTime" /\ lq.req.SortOrder = "asc"
  /\ Len(lq.tasks) = 3
  /\ lq.resp.Tasks[1].ID = 2 /\ lq.resp.Tasks[2].ID = 3 /\ lq.resp.Tasks[3].ID = 1
  /\ lq.tasks[2].StartTime = lq.tasks[3].StartTime

\* C22: a request without a sort order is answered in descending order of
\* the sort field, and a request without a sort field is sorted by start
\* time (checked on the responses that hold the whole list).
C22_DefaultOrder ==
  (Listed /\ Len(lq.resp.Tasks) = lq.resp.Total) =>
    LET out == lq.resp.Tasks
        by == IF lq.req.SortBy = "" THEN "startTime" ELSE lq.req.SortBy
        order == IF lq.req.SortOrder = "" THEN "desc" ELSE lq.req.SortOrder
    IN \A i, j \in 1..Len(out) : i < j => InOrder(out[i], out[j], by, order)

\* buildSkopeoArgs has returned in both jobs
Built == lq.kind = "cmd" /\ lq.built # NoResp

\* the argument list holds the flag, followed by the credentials
FlagWith(args, flag, username, password) ==
  \E i \in 1..(Len(args) - 1) :
    args[i] = Str(flag) /\ args[i + 1] = CredsArg(username, password)

\* C23: the source credential flag is among the arguments exactly when the
\* source username and the source password are both non-empty, and the
\* destination flag exactly when both destination values are, each side on
\* its own; a username without password, or the reverse, gives no flag.
C23_CredsBothOrNeither ==
  Built =>
    \A i \in 1..2 :
      LET req == lq.reqs[i]
          args == lq.built[i].args
      IN /\ (\E k \in 1..Len(args) : args[k] = Str("--src-creds"))
              <=> (req.SourceUsername # <<>> /\ req.SourcePassword # <<>>)
         /\ (\E k \in 1..Len(args) : args[k] = Str("--dest-creds"))
              <=> (req.DestUsername # <<>> /\ req.DestPassword # <<>>)
         /\ (req.SourceUsername # <<>> /\ req.SourcePassword # <<>>)
              => FlagWith(args, "--src-creds", req.SourceUsername, req.SourcePassword)
         /\ (req.DestUsername # <<>> /\ req.DestPassword # <<>>)
              => FlagWith(args, "--dest-creds", req.DestUsername, req.DestPassword)

\* C23 witness: a request with a source username and no source password, and
\* both destination values, got the destination flag only.
C23_Witness ==
  /\ Built
  /\ lq.reqs[1].SourceUsername # <<>> /\ lq.reqs[1].SourcePassword = <<>>
  /\ lq.reqs[1].DestUsername # <<>> /\ lq.reqs[1].DestPassword # <<>>
  /\ \A k \in 1..Len(lq.built[1].args) : lq.built[1].args[k] # Str("--src-creds")
  /\ \E k \in 1..Len(lq.built[1].args) : lq.built[1].args[k] = Str("--dest-creds")

\* both jobs have logged their command
Logged == lq.kind = "cmd" /\ lq.resp # NoResp

\* which of the four credential values of a request are empty
Pattern(req) ==
  <<req.SourceUsername = <<>>, req.SourcePassword = <<>>,
    req.DestUsername = <<>>, req.DestPassword = <<>>>>

\* the request with every credential pair that is used replaced by stars
Starred(req) ==
  LET src == req.SourceUsername # <<>> /\ req.SourcePassword # <<>>
      dest == req.DestUsername # <<>> /\ req.DestPassword # <<>>
  IN [req EXCEPT !.SourceUsername = IF src THEN Str("***") ELSE @,
                 !.SourcePassword = IF src THEN Str("***") ELSE @,
                 !.DestUsername = IF dest THEN Str("***") ELSE @,
                 !.DestPassword = IF dest THEN Str("***") ELSE @]

\* the lines job i has written to its log up to the command line
LinesOf(i) == lq.built[i].logs \o <<lq.resp[i]>>

\* C24: the log lines written for a job do not depend on its credentials: two
\* jobs whose requests differ only in usernames and passwords, with the same
\* ones empty, have written the same lines, and the "Executing: ..." line is
\* the command line with every credential value replaced by the mask.
C24_LogIndependentOfCreds ==
  (Logged /\ Pattern(lq.reqs[1]) = Pattern(lq.reqs[2])) =>
    /\ LinesOf(1) = LinesOf(2)
    /\ \A i \in 1..2 :
         lq.resp[i] =
           <<"Executing: ", "skopeo", " ">>
           \o Join(buildSkopeoArgs(NewSyncTask(lq.reqs[i]), Starred(lq.reqs[i])).args, " ")

\* C24 witness: two jobs with different source and destination credentials
\* have logged the same lines.
C24_Witness ==
  /\ Logged
  /\ Pattern(lq.reqs[1]) = <<FALSE, FALSE, FALSE, FALSE>>
  /\ Pattern(lq.reqs[2]) = <<FALSE, FALSE, FALSE, FALSE>>
  /\ lq.reqs[1].SourceUsername # lq.reqs[2].SourceUsername
  /\ lq.reqs[1].SourcePassword # lq.reqs[2].SourcePassword
  /\ lq.reqs[1].DestUsername # lq.reqs[2].DestUsername
  /\ lq.reqs[1].DestPassword # lq.reqs[2].DestPassword
  /\ LinesOf(1) = LinesOf(2)

\* C25: GetLogLines is a pure read: a call returns the log as it is, so two
\* calls with no AddLog between them return equal sequences; the call
\* changes neither the log nor the subscriber set; and the sequence a caller
\* got earlier stays as it was when later lines are added.
C25_GetLogLinesPureRead ==
  [][ /\ \A c \in Callers :
          T_GetLogLines(c) =>
            /\ hs'[c].existingLogs = LogLines
            /\ UNCHANGED hubVars
      /\ LogLines' # LogLines =>
            /\ T_AddLog
            /\ \A c \in Callers : hs'[c].existingLogs = hs[c].existingLogs
    ]_vars

\* C25 witness: one caller holds a copy taken before a line was added, the
\* other a copy of the log as it is now.
C25_Witness ==
  /\ hs["c1"].existingLogs # <<>>
  /\ Len(hs["c1"].existingLogs) < Len(LogLines)
  /\ hs["c2"].existingLogs = LogLines

\* C27: RemoveLogListener on a registered queue removes that queue from the
\* subscriber set and closes it, and touches nothing else; on a queue that
\* is not registered (removed before, or closed by CloseAllLogListeners) it
\* does nothing, so a second call changes nothing.
C27_RemoveExactlyThat ==
  [][ \A c \in Callers :
        T_RemoveLogListener(c) =>
          IF c \in Range(LogListeners)
            THEN /\ LogListeners' = SelectSeq(LogListeners, LAMBDA x : x # c)
                 /\ Len(LogListeners') = Len(LogListeners) - 1
                 /\ chans'[c] = [chans[c] EXCEPT !.closed = TRUE]
                 /\ \A d \in Callers \ {c} : chans'[d] = chans[d]
                 /\ UNCHANGED <<LogLines, panicked, dropped>>
            ELSE UNCHANGED hubVars
    ]_vars

\* C27 witness: one queue has been removed and closed while the other is
\* still registered and open.
C27_Witness ==
  /\ chans["c1"].made /\ chans["c1"].closed /\ "c1" \notin Range(LogListeners)
  /\ LogListeners = <<"c2">> /\ ~chans["c2"].closed
  /\ ~panicked

\* C28: CloseAllLogListeners closes every queue that is registered when it
\* is called, keeping the lines still buffered in it, so that its subscriber
\* reads end-of-stream after them; it leaves the subscriber set empty and
\* the log and the other queues as they were.
C28_CloseAllClosesAll ==
  [][ T_CloseAllLogListeners =>
        /\ \A c \in Range(LogListeners) :
             chans'[c] = [chans[c] EXCEPT !.closed = TRUE]
        /\ \A c \in Callers \ Range(LogListeners) : chans'[c] = chans[c]
        /\ LogListeners' = <<>>
        /\ UNCHANGED <<LogLines, panicked, dropped>>
    ]_vars

\* C28 witness: two queues were registered, one with a line in its buffer,
\* and both are closed and the subscriber set is empty.
C28_Witness ==
  /\ chans["c1"].closed /\ chans["c2"].closed
  /\ chans["c1"].buf # <<>>
  /\ LogListeners = <<>>
  /\ LogLines # <<>>
  /\ ~panicked

\* the lines subscriber c has received or has pending that were appended
\* after line number n
DeliveredAfter(c, n) == {l \in Range(sent[c] \o chans[c].buf) : l > n}

\* C26: two subscribers of the same job receive the same lines over the
\* period in which both are subscribed: of the lines appended since the later
\* of the two registered, neither has received or has pending a line that the
\* other has not.
C26_SameLinesForBoth ==
  \A c, d \in Callers :
    (c \in Range(LogListeners) /\ d \in Range(LogListeners)) =>
      LET since == IF regAt[c] > regAt[d] THEN regAt[c] ELSE regAt[d]
      IN DeliveredAfter(c, since) = DeliveredAfter(d, since)

\* the executor has been launched and has not yet written to the task
Untouched == ex.pc \in {"get", "setRunning"}

\* C29: a submission puts the task into the repository before it launches
\* the executor and before it returns, so that GetTask finds the task from
\* then on; as long as the executor has not touched it the task is Pending
\* with an empty log and no EndTime, and its architecture is "all" when the
\* request named none and the one of the request otherwise. A submission
\* step only creates and launches: it runs no step of the job.
C29_CreatedBeforeLaunch ==
  /\ [](Launched => RepoHas(TaskID))
  /\ [](Untouched =>
          /\ Status = StatusPending /\ Message = "Task created"
          /\ LogLines = <<>> /\ EndTime = Nil
          /\ Output = <<>> /\ ErrorOutput = ""
          /\ ex.req.taskArch = (IF ex.req.arch = <<>> THEN <<"all">> ELSE ex.req.arch))
  /\ [][ (ex.pc = "idle" /\ ex'.pc # "idle") =>
            /\ ex'.pc = "get" /\ RepoHas(TaskID)'
            /\ UNCHANGED <<taskVars, hubVars, proc, ctx, rd>> ]_vars

\* C29 witness: a task submitted without an architecture is in the
\* repository with architecture "all", was found by a StreamLogs call, and
\* the executor has not touched it.
C29_Witness ==
  /\ ex.pc = "get" /\ RepoHas(TaskID)
  /\ ex.req.arch = <<>> /\ ex.req.taskArch = <<"all">>
  /\ hs["h1"].pc = "snapshot"
  /\ Status = StatusPending

WritesStatus == ex.pc \in {"setRunning", "setStatus", "heStatus"}

\* a StreamLogs call is about to evaluate task.Status; the read is a plain
\* load, made outside logMu
ReadsStatus(h) == hs[h].pc = "readStatus"

\* C31: the writes of the executor to the fields of a task and the reads of
\* the handlers exclude each other: in no state is the executor about to
\* write the status while a StreamLogs call is about to read it, neither of
\* them holding the lock of the task.
C31_NoUnlockedRace ==
  \A h \in Handlers : ~(WritesStatus /\ ReadsStatus(h))

\* the executor is past cmd.Wait and has not returned
Finalizing ==
  ex.pc \in {"checkTimeout", "waitReaders", "finalLog", "closeAll", "setEndTime",
             "setOutput", "setStatus", "setMessage", "update"}

\* C32: once the process has exited or been killed the readers cannot block
\* the finalization: from the return of cmd.Wait on the executor always has
\* a step to take, whether or not the readers have finished; leaving the
\* wait for the readers, by their completion or by the grace timeout, leads
\* to the final log line with the error of the job unchanged; and an
\* executor that has returned after a started process has left the task
\* terminal, Completed exactly when the job carried no error.
C32_ReadersNeverBlock ==
  /\ [](Finalizing => ENABLED Executor)
  /\ [][ (ex.pc = "waitReaders" /\ ex'.pc # "waitReaders") =>
            /\ ex'.pc = "finalLog" /\ ex'.err = ex.err
            /\ UNCHANGED <<taskVars, hubVars>> ]_vars
  /\ [][ (ex.pc = "setStatus" /\ ex'.pc # "setStatus") =>
            Status' = IF ex.err = Nil THEN StatusCompleted ELSE StatusFailed ]_vars
  /\ []((ExecutorDone /\ Started) => (Status \in Terminal /\ EndTime # Nil))

\* C32 witness: a job whose process exited with code 0 was finalized as
\* Completed while a reader was still reading.
C32_Witness ==
  /\ ExecutorDone /\ proc = "exit0" /\ Status = StatusCompleted
  /\ \E r \in Readers : rd[r].pc = "reading"

\* C33: whenever the task is terminal and its executor has finished, the
\* combined output is the join of the complete log: every line of the log,
\* those of a late reader and those of a job that failed before the process
\* started included, is in Output.
C33_OutputIsWholeLog ==
  (Status \in Terminal /\ ExecutorDone) => Output = LogLines

\* C34: every StreamLogs call returns once the job has finished: when the
\* executor has returned, no call is waiting on, or about to register, a
\* queue that is still open (nothing but the executor's CloseAllLogListeners
\* closes the queue of a client that stays connected).
C34_NoSubscriberLeftWaiting ==
  ExecutorDone =>
    \A h \in Handlers :
      /\ hs[h].pc # "subscribe"
      /\ hs[h].pc = "recv" => chans[h].closed

\* C35: no queue is closed twice: a queue is closed only by a step that
\* takes it out of the subscriber set, a closed queue stays closed and is
\* never registered again, and no step closes a queue that is closed.
C35_ClosedOnce ==
  [][ /\ \A c \in Callers :
          /\ (chans'[c].closed /\ ~chans[c].closed) =>
                (c \in Range(LogListeners) /\ c \notin Range(LogListeners'))
          /\ chans[c].closed => (chans'[c].closed /\ c \notin Range(LogListeners'))
      /\ ~panicked'
    ]_vars

\* C35 witness: one queue was closed by RemoveLogListener and the other by
\* CloseAllLogListeners, in a state in which RemoveLogListener can be called
\* for both again.
C35_Witness ==
  /\ chans["c1"].closed /\ chans["c2"].closed
  /\ LogListeners = <<>>
  /\ chans["c1"].buf = <<>> /\ chans["c2"].buf # <<>>
  /\ ENABLED T_RemoveLogListener("c1") /\ ENABLED T_RemoveLogListener("c2")
  /\ ~panicked

\* C36: every queue in the subscriber set is open, in every state, so that
\* AddLog, which sends to the queues of the set only, never sends to a closed
\* queue.
C36_RegisteredIsOpen ==
  /\ \A h \in Range(LogListeners) : chans[h].made /\ ~chans[h].closed
  /\ ~panicked

\* C36 witness: a reader appended a line after CloseAllLogListeners had
\* closed the queue of a subscriber.
C36_Witness ==
  /\ closeAllCalls = 1
  /\ Len(LogLines) > lenAtClose
  /\ chans["h1"].closed
  /\ \E r \in Readers : rd[r].n > 0

\* C37: while the status is Pending the log is empty.
C37_PendingHasEmptyLog == Status = StatusPending => LogLines = <<>>

\* C37 witness: the executor has been launched and is about to set the
\* status to Running; the task is Pending, and a StreamLogs call has taken
\* its snapshot of the empty log.
C37_Witness ==
  /\ ex.pc = "setRunning" /\ Status = StatusPending /\ LogLines = <<>>
  /\ hs["h1"].pc = "readStatus"

\* C38: a StreamLogs call that reads the status as Completed or Failed
\* returns without registering a queue, the subscriber set and the queues
\* being as before, and what it has replayed to the client is the complete
\* log of the task.
C38_TerminalReplayIsComplete ==
  [][ \A h \in Handlers :
        (hs[h].pc = "readStatus" /\ Status \in Terminal /\ hs'[h].pc # "readStatus") =>
          /\ hs'[h].pc = "done"
          /\ UNCHANGED <<LogListeners, chans>>
          /\ sent'[h] = LogLines
    ]_vars

\* start and end as ListTasks computes them for a list of total tasks
Window(req, total) ==
  LET page == IF req.Page < 1 THEN 1 ELSE req.Page
      pageSize == EffectivePageSize(req.PageSize)
      start0 == WrapInt((page - 1) * pageSize)
      end0 == WrapInt(start0 + pageSize)
  IN [start |-> IF start0 > total THEN total ELSE start0,
      end |-> IF end0 > total THEN total ELSE end0]

\* C39: for every page number and page size of the machine integers, those
\* whose product wraps around included, ListTasks computes a window with
\* 0 <= start <= end <= total and returns a response.
C39_WindowInBounds ==
  (lq.kind = "list" /\ lq.resp # NoResp) =>
    LET total == Len(FilterByStatus(lq.tasks, lq.req.Status))
        w == Window(lq.req, total)
    IN /\ 0 <= w.start /\ w.start <= w.end /\ w.end <= total
       /\ lq.resp.kind = "list"

====
